---- MODULE Spec2Model ----
(***************************************************************************)
(* Model of goktor's concurrent directory-tree scanner                     *)
(* (service/file.go): ListDirectoriesWithFilter, getDirectoryRecursively,   *)
(* manageDirEntries, processSubDirectories and filterResults.              *)
(*                                                                         *)
(* A directory is identified by its position: the sequence of entry names  *)
(* leading from the scanned root to it (<<>> is the root).  Every          *)
(* getDirectoryRecursively call, and the goroutine that wraps it in the    *)
(* parent's processSubDirectories, is one process whose program counter is *)
(* pc[position].  Steps that touch only locals of one goroutine are taken  *)
(* together with the shared-state step before them.                        *)
(***************************************************************************)
EXTENDS Integers, Sequences, FiniteSets, TLC

VARIABLES
    fsys,         \* the file system under the root: position -> [status, entries]
    rootPath,     \* the path argument of ListDirectoriesWithFilter
    filter,       \* the filter argument: [kind, limit]
    pc,           \* position -> program counter of the call / goroutine
    dir,          \* position -> local `dir` of getDirectoryRecursively
    subDirPaths,  \* position -> local `subDirPaths` of getDirectoryRecursively
    results,      \* position -> `results` slice of its processSubDirectories
    semaphore,    \* position -> number of permits taken in its `semaphore`
    wg,           \* position -> counter of its sync.WaitGroup
    mu,           \* position -> state of its sync.Mutex: "free" or "held"
    next,         \* position -> loop index of the dispatch loop (file.go:141)
    index,        \* position -> `index` argument of the goroutine scanning it
    ret,          \* position -> (Directory, error) returned by the call
    logs,         \* the records handed to the Logger
    out,          \* what ListDirectoriesWithFilter returned: [done, dir, err]
    reordered,    \* the call of ReorderDirectory: [done, flat, result]
    listed,       \* the call of ListFiles: [done, pos, files, err]
    repo,         \* the repository at repoPath on disk: [kind, urls of origin]
    reachable,    \* the remote URLs a fetch can reach
    ur,           \* the call of UpdateRemote: [pc, newRemote, ctx, oldRemote, newRemoteURL, err]
    uab,          \* the call of UpdateAllBranchesProject and the repository it works on
    cmd           \* the run of the update-remote command: [pc, newRemote, entries, i, ...]

vars == <<fsys, rootPath, filter, pc, dir, subDirPaths, results, semaphore,
          wg, mu, next, index, ret, logs, out, reordered, listed,
          repo, reachable, ur, uab, cmd>>

\* The variables of the directory scanner and those of the git service.
scanVars == <<fsys, rootPath, filter, pc, dir, subDirPaths, results, semaphore,
              wg, mu, next, index, ret, logs, out, reordered, listed>>
gitVars == <<repo, reachable, ur, uab, cmd>>

(***************************************************************************)
(* Bounds of the model.                                                    *)
(***************************************************************************)
\* Capacity of the semaphore channel.  The source sets 10 (file.go:18); the
\* model scales it down so that more sub-directories than permits can be
\* explored exhaustively.
maxWorkers == 2
\* Largest threshold of the size filter.
MaxLimit == 2

\* The names sub-directories have, in listing order.
DirNames == <<"a", "b", "c">>
DirNameSet == {DirNames[i] : i \in 1..Len(DirNames)}

\* Every position a directory can have in the model: the root, its
\* sub-directories and theirs.
Pos == {<<>>} \cup {<<x>> : x \in DirNameSet}
              \cup {<<x, y>> : x \in DirNameSet, y \in DirNameSet}

(***************************************************************************)
(* Values.                                                                 *)
(***************************************************************************)
\* model.FileSystem{} and model.Directory{}: the zero values.
EmptyFileSystem == [Name |-> "", FullPath |-> <<>>, Size |-> 0, IsDir |-> FALSE]
EmptyDirectory ==
    [Name |-> "", FullPath |-> <<>>, Size |-> 0, IsDir |-> FALSE,
     SubDirs |-> <<>>, Files |-> <<>>]

\* error values: nil, the *fs.PathError of os.ReadDir, and the *fmt.wrapError
\* that fmt.Errorf("...%w", err) builds around it.
NilErr == [kind |-> "nil", msg |-> "", errno |-> ""]
PathError(errno) == [kind |-> "PathError", msg |-> "", errno |-> errno]
\* Mutant: the cause is formatted with %v, not wrapped.
ErrorfNoWrap(msg, err) == [kind |-> "wrapError", msg |-> msg, errno |-> ""]

\* fmt.Errorf("msg: %w", err): the cause stays in the chain.
Errorf(msg, err) == [kind |-> "wrapError", msg |-> msg, errno |-> err.errno]

\* os.IsPermission: looks through the os package's own error types only, not
\* through an error wrapped by fmt.Errorf.
IsPermission(err) == err.kind = "PathError" /\ err.errno = "EACCES"

\* The working directory filepath.Abs resolves relative paths against.
Cwd == <<"/", "w">>

\* filepath.Base
Base(path) == IF path = <<>> THEN "." ELSE path[Len(path)]
\* filepath.Join(path, name)
Join(path, name) == Append(path, name)
\* filepath.Abs: an absolute path is returned as it is, a relative one is
\* joined to the working directory.  (Its error, a working directory that
\* cannot be determined, is not modelled.)
Abs(path) == IF path # <<>> /\ path[1] = "/" THEN path ELSE Cwd \o path

\* The path of the directory at position p.
PathOf(p) == rootPath \o p

RECURSIVE SumSizes(_)
SumSizes(s) == IF s = <<>> THEN 0 ELSE s[1].Size + SumSizes(Tail(s))

RECURSIVE MapSeq(_, _)
MapSeq(Op(_), s) == IF s = <<>> THEN <<>> ELSE <<Op(s[1])>> \o MapSeq(Op, Tail(s))

\* Mutant: the size of the directory entry is recorded although its metadata
\* could not be read.
toFileSystemModelKeepSize(path, file) ==
    IF ~file.infoOk
    THEN [EmptyFileSystem EXCEPT !.Name = file.name, !.Size = file.size]
    ELSE [Name |-> file.name, FullPath |-> Abs(Join(path, file.name)),
          Size |-> file.size, IsDir |-> file.isDir]

\* toFileSystemModel
toFileSystemModel(path, file) ==
    IF ~file.infoOk
    THEN [EmptyFileSystem EXCEPT !.Name = file.name]
    ELSE [Name |-> file.name, FullPath |-> Abs(Join(path, file.name)),
          Size |-> file.size, IsDir |-> file.isDir]

\* Mutant: the Name of the directory is left unset.
toDirModelNoName(path, d, folderSize) ==
    [d EXCEPT !.Size = folderSize, !.FullPath = Abs(path), !.IsDir = TRUE]

\* toDirModel
toDirModel(path, d, folderSize) ==
    [d EXCEPT !.Size = folderSize, !.FullPath = Abs(path), !.IsDir = TRUE,
              !.Name = Base(path)]

\* manageDirEntries: the pair (dir, subDirPaths)
manageDirEntries(path, entries) ==
    LET files == MapSeq(LAMBDA e : toFileSystemModel(path, e),
                        SelectSeq(entries, LAMBDA e : ~e.isDir))
        subs  == MapSeq(LAMBDA e : Join(path, e.name),
                        SelectSeq(entries, LAMBDA e : e.isDir))
    IN  [dir |-> toDirModel(path, [EmptyDirectory EXCEPT !.Files = files],
                            SumSizes(files)),
         subDirPaths |-> subs]

\* Mutant: nothing is compacted out.
filterResultsKeepAll(rs) == rs

\* Mutant: the surviving entries are collected in reverse.
RECURSIVE Reverse(_)
Reverse(rs) == IF rs = <<>> THEN <<>> ELSE Append(Reverse(Tail(rs)), rs[1])
filterResultsReversed(rs) ==
    Reverse(SelectSeq(rs, LAMBDA d : d.Name # "" /\ d.FullPath # <<>>))

\* filterResults
filterResults(rs) == SelectSeq(rs, LAMBDA d : d.Name # "" /\ d.FullPath # <<>>)

\* Mutant: a Size equal to the limit is accepted.
ApplyFilterInclusive(f, d) == IF f.kind = "all" THEN TRUE ELSE d.Size >= f.limit

\* The filter predicates the callers pass: accept-all (ListDirectories) and
\* GetSizeFilter's dir.Size > limit.
ApplyFilter(f, d) == IF f.kind = "all" THEN TRUE ELSE d.Size > f.limit

\* os.ReadDir: (entries, err)
ReadDirOS(p) ==
    CASE fsys[p].status = "ok" -> [entries |-> fsys[p].entries, err |-> NilErr]
      [] fsys[p].status = "perm" -> [entries |-> <<>>, err |-> PathError("EACCES")]
      [] fsys[p].status = "io" -> [entries |-> <<>>, err |-> PathError("EIO")]
      [] OTHER -> [entries |-> <<>>, err |-> PathError("ENOENT")]

\* Mutant: readDirectory drops the error of os.ReadDir.
readDirectorySwallow(p) == [entries |-> ReadDirOS(p).entries, err |-> NilErr]

\* readDirectory: (entries, err)
readDirectory(p) ==
    LET r == ReadDirOS(p)
    IN  IF r.err # NilErr
        THEN IF IsPermission(r.err)
             THEN [entries |-> <<>>,
                   err |-> Errorf("permission denied reading directory", r.err)]
             ELSE [entries |-> <<>>, err |-> Errorf("failed to read directory", r.err)]
        ELSE r

(***************************************************************************)
(* The scan.                                                               *)
(***************************************************************************)
Parent(q) == SubSeq(q, 1, Len(q) - 1)
\* The position of the directory with path `path`.
PosOf(path) == SubSeq(path, Len(rootPath) + 1, Len(path))

\* make([]model.Directory, n)
MakeResults(n) == [i \in 1..n |-> EmptyDirectory]

\* file.go:88-97, 135-139: readDirectory and manageDirEntries; on success with
\* sub-directories processSubDirectories allocates results, semaphore, wg, mu.
ReadDir(p) ==
    /\ pc[p] = "call"
    /\ LET r == readDirectory(p)
           m == manageDirEntries(PathOf(p), r.entries)
       IN  IF r.err # NilErr
           THEN /\ ret' = [ret EXCEPT ![p] = [dir |-> EmptyDirectory, err |-> r.err]]
                /\ pc' = [pc EXCEPT ![p] = "returned"]
                /\ UNCHANGED <<dir, subDirPaths, results, next>>
           ELSE /\ dir' = [dir EXCEPT ![p] = m.dir]
                /\ subDirPaths' = [subDirPaths EXCEPT ![p] = m.subDirPaths]
                /\ IF Len(m.subDirPaths) > 0
                   THEN /\ results' = [results EXCEPT ![p] = MakeResults(Len(m.subDirPaths))]
                        /\ next' = [next EXCEPT ![p] = 1]
                        /\ pc' = [pc EXCEPT ![p] = "dispatch"]
                   ELSE /\ pc' = [pc EXCEPT ![p] = "filter"]
                        /\ UNCHANGED <<results, next>>
                /\ UNCHANGED ret
    /\ UNCHANGED <<gitVars, listed, reordered,
                   fsys, rootPath, filter, semaphore, wg, mu, index, logs, out>>

\* file.go:141-143: one iteration of the dispatch loop: wg.Add(1); go func(i, subPath)
Dispatch(p) ==
    /\ pc[p] = "dispatch"
    /\ LET i == next[p]
           q == PosOf(subDirPaths[p][i])
       IN  /\ wg' = [wg EXCEPT ![p] = @ + 1]
           /\ index' = [index EXCEPT ![q] = i]
           /\ next' = [next EXCEPT ![p] = i + 1]
           /\ pc' = [pc EXCEPT ![q] = "spawned",
                               ![p] = IF i = Len(subDirPaths[p]) THEN "wait" ELSE "dispatch"]
    /\ UNCHANGED <<gitVars, listed, reordered,
                   fsys, rootPath, filter, dir, subDirPaths, results, semaphore,
                   mu, ret, logs, out>>

\* Mutant: the channel is made one element too large.
SemaphoreFullOffByOne(p) == semaphore[p] >= maxWorkers + 1

\* Mutant: one channel is shared by all invocations.
RECURSIVE PermitsTaken(_)
PermitsTaken(S) ==
    IF S = {} THEN 0
    ELSE LET p == CHOOSE x \in S : TRUE IN semaphore[p] + PermitsTaken(S \ {p})
SemaphoreFullGlobal(p) == PermitsTaken(Pos) >= maxWorkers

\* file.go:136: a send on the buffered channel blocks while it holds
\* maxWorkers elements.
SemaphoreFull(p) == semaphore[p] >= maxWorkers

\* file.go:145: semaphore <- struct{}{}
Acquire(q) ==
    /\ pc[q] = "spawned"
    /\ ~SemaphoreFull(Parent(q))
    /\ semaphore' = [semaphore EXCEPT ![Parent(q)] = @ + 1]
    /\ pc' = [pc EXCEPT ![q] = "call"]
    /\ UNCHANGED <<gitVars, listed, reordered,
                   fsys, rootPath, filter, dir, subDirPaths, results, wg, mu,
                   next, index, ret, logs, out>>

\* Mutant: the call does not wait for its tasks.
JoinedNoWait(p) == TRUE

\* file.go:159: wg.Wait() blocks until the counter is zero.
Joined(p) == wg[p] = 0

\* file.go:159-161, 96: wg.Wait() returns, filterResults, dir.SubDirs = ...
Wait(p) ==
    /\ pc[p] = "wait"
    /\ Joined(p)
    /\ dir' = [dir EXCEPT ![p].SubDirs = filterResults(results[p])]
    /\ pc' = [pc EXCEPT ![p] = "filter"]
    /\ UNCHANGED <<gitVars, listed, reordered,
                   fsys, rootPath, filter, subDirPaths, results, semaphore, wg,
                   mu, next, index, ret, logs, out>>

\* Mutant: the node is returned whatever the filter says.
FilterReturnKeep(f, d) == [dir |-> d, err |-> NilErr]

\* file.go:99-102: if filter(dir) { return dir, nil }; return model.Directory{}, nil
FilterReturn(f, d) ==
    [dir |-> IF ApplyFilter(f, d) THEN d ELSE EmptyDirectory, err |-> NilErr]

\* file.go:99-102: getDirectoryRecursively applies the filter and returns
Filter(p) ==
    /\ pc[p] = "filter"
    /\ ret' = [ret EXCEPT ![p] = FilterReturn(filter, dir[p])]
    /\ pc' = [pc EXCEPT ![p] = "returned"]
    /\ UNCHANGED <<gitVars, listed, reordered,
                   fsys, rootPath, filter, dir, subDirPaths, results, semaphore,
                   wg, mu, next, index, logs, out>>

\* Mutant: the early return skips the release of the permit.
ErrorExitNoRelease == "wgdone"
\* Mutant: a failed scan is tried again.
ErrorExitRetry == "call"

\* file.go:144-151: where the early return of a failed task continues: at its
\* deferred calls, the release of the permit first.
ErrorExit == "release"

\* file.go:149-152: the recursive scan failed: log at Debug and return
TaskError(q) ==
    /\ q # <<>>
    /\ pc[q] = "returned"
    /\ ret[q].err # NilErr
    /\ logs' = logs \cup {[level |-> "DEBUG", msg |-> "error processing subdirectory",
                           path |-> PathOf(q)]}
    /\ pc' = [pc EXCEPT ![q] = ErrorExit]
    /\ UNCHANGED <<gitVars, listed, reordered,
                   fsys, rootPath, filter, dir, subDirPaths, results, semaphore,
                   wg, mu, next, index, ret, out>>

\* Mutant: the lock is taken whether or not it is held.
MutexFreeAlways(p) == TRUE

\* file.go:139, 154: mu.Lock() blocks while the mutex is held.
MutexFree(p) == mu[p] = "free"

\* file.go:154: mu.Lock()
Lock(q) ==
    /\ q # <<>>
    /\ pc[q] = "returned"
    /\ ret[q].err = NilErr
    /\ MutexFree(Parent(q))
    /\ mu' = [mu EXCEPT ![Parent(q)] = "held"]
    /\ pc' = [pc EXCEPT ![q] = "locked"]
    /\ UNCHANGED <<gitVars, listed, reordered,
                   fsys, rootPath, filter, dir, subDirPaths, results, semaphore,
                   wg, next, index, ret, logs, out>>

\* Mutant: the slots are filled from the far end.
SlotReversed(q) == Len(results[Parent(q)]) - index[q] + 1
\* Mutant: every task writes the slot of the first one.
SlotShared(q) == 1

\* file.go:155: the slot a task writes is the index it was started with.
Slot(q) == index[q]

\* file.go:155: results[index] = subDir
Write(q) ==
    /\ pc[q] = "locked"
    /\ results' = [results EXCEPT ![Parent(q)][Slot(q)] = ret[q].dir]
    /\ pc' = [pc EXCEPT ![q] = "written"]
    /\ UNCHANGED <<gitVars, listed, reordered,
                   fsys, rootPath, filter, dir, subDirPaths, semaphore, wg, mu,
                   next, index, ret, logs, out>>

\* file.go:156: mu.Unlock()
Unlock(q) ==
    /\ pc[q] = "written"
    /\ mu' = [mu EXCEPT ![Parent(q)] = "free"]
    /\ pc' = [pc EXCEPT ![q] = "release"]
    /\ UNCHANGED <<gitVars, listed, reordered,
                   fsys, rootPath, filter, dir, subDirPaths, results, semaphore,
                   wg, next, index, ret, logs, out>>

\* file.go:146: the deferred <-semaphore
Release(q) ==
    /\ pc[q] = "release"
    /\ semaphore' = [semaphore EXCEPT ![Parent(q)] = @ - 1]
    /\ pc' = [pc EXCEPT ![q] = "wgdone"]
    /\ UNCHANGED <<gitVars, listed, reordered,
                   fsys, rootPath, filter, dir, subDirPaths, results, wg, mu,
                   next, index, ret, logs, out>>

\* file.go:144: the deferred wg.Done()
Done(q) ==
    /\ pc[q] = "wgdone"
    /\ wg' = [wg EXCEPT ![Parent(q)] = @ - 1]
    /\ pc' = [pc EXCEPT ![q] = "done"]
    /\ UNCHANGED <<gitVars, listed, reordered,
                   fsys, rootPath, filter, dir, subDirPaths, results, semaphore,
                   mu, next, index, ret, logs, out>>

\* handleError: os.IsPermission on the error readDirectory returned
handleError(err, path) ==
    IF IsPermission(err)
    THEN [level |-> "ERROR", msg |-> "permission denied reading directory", path |-> path]
    ELSE [level |-> "ERROR", msg |-> "failed to read directory", path |-> <<Base(path)>>]

\* file.go:79-84: ListDirectoriesWithFilter returns
Return ==
    /\ pc[<<>>] = "returned"
    /\ IF ret[<<>>].err # NilErr
       THEN /\ logs' = logs \cup {handleError(ret[<<>>].err, rootPath)}
            /\ out' = [done |-> TRUE, dir |-> EmptyDirectory, err |-> ret[<<>>].err]
       ELSE /\ out' = [done |-> TRUE, dir |-> ret[<<>>].dir, err |-> NilErr]
            /\ UNCHANGED logs
    /\ pc' = [pc EXCEPT ![<<>>] = "done"]
    /\ UNCHANGED <<gitVars, listed, reordered,
                   fsys, rootPath, filter, dir, subDirPaths, results, semaphore,
                   wg, mu, next, index, ret>>

\* Directory.FlattenDirectory: pre-order, the node and then the flattened
\* sequence of each child, in child-list order.
RECURSIVE FlattenDirectory(_)
FlattenDirectory(d) ==
    LET RECURSIVE Concat(_)
        Concat(ss) == IF ss = <<>> THEN <<>> ELSE ss[1] \o Concat(Tail(ss))
    IN  <<d>> \o Concat([i \in 1..Len(d.SubDirs) |-> FlattenDirectory(d.SubDirs[i])])

\* model.BySize, Less: descending by Size.
BySize(a, b) == a.Size > b.Size

\* sort.Sort(model.BySize(data)): the result is ordered by Less; the order of elements neither of
\* which is less than the other is not specified ("The sort is not
\* guaranteed to be stable").  All the orders it may produce.
RECURSIVE SortIndices(_, _)
SortIndices(data, I) ==
    IF I = {} THEN {<<>>}
    ELSE UNION {{<<i>> \o t : t \in SortIndices(data, I \ {i})} :
                  i \in {j \in I : \A k \in I : ~BySize(data[k], data[j])}}
Sort(data) ==
    {[k \in 1..Len(data) |-> data[t[k]]] : t \in SortIndices(data, 1..Len(data))}

\* Mutant: the flattened sequence is returned as it is.
ReorderDirectoryNoSort(directory) == {FlattenDirectory(directory)}

\* file.go:234-239: ReorderDirectory, the sequences it may return
ReorderDirectory(directory) ==
    LET result == FlattenDirectory(directory)
    IN  Sort(result)

\* Mutant: the flattened sequence shares the root's child list, so that the
\* swaps of the sort reorder the children of the root.
AfterSortShared(directory, result) ==
    [directory EXCEPT !.SubDirs =
        SelectSeq(result, LAMBDA d : \E i \in 1..Len(directory.SubDirs) : directory.SubDirs[i] = d)]

\* The caller's tree after sort.Sort has swapped elements of result: the
\* flattened sequence holds copies of the nodes, the tree is not written.
AfterSort(directory, result) == directory

\* The caller hands the scan's result to ReorderDirectory and receives the
\* ordered sequence (folder-list.go:33, file_test.go:100).
Reorder ==
    /\ out.done /\ ~reordered.done
    /\ \E result \in ReorderDirectory(out.dir) :
          /\ reordered' = [done |-> TRUE, flat |-> FlattenDirectory(out.dir),
                           result |-> result]
          /\ out' = [out EXCEPT !.dir = AfterSort(out.dir, result)]
    /\ UNCHANGED <<gitVars, listed, fsys, rootPath, filter, pc, dir, subDirPaths, results,
                   semaphore, wg, mu, next, index, ret, logs>>

\* Mutant: the directory entries are converted and returned as well.
ListFilesWithDirs(p) ==
    LET r == readDirectory(p)
    IN  IF r.err # NilErr THEN [files |-> <<>>, err |-> r.err]
        ELSE [files |-> MapSeq(LAMBDA e : toFileSystemModel(PathOf(p), e), r.entries),
              err |-> NilErr]

\* file.go:219-232: ListFiles(path), (files, err)
ListFiles(p) ==
    LET r == readDirectory(p)
    IN  IF r.err # NilErr THEN [files |-> <<>>, err |-> r.err]
        ELSE [files |-> MapSeq(LAMBDA e : toFileSystemModel(PathOf(p), e),
                               SelectSeq(r.entries, LAMBDA e : ~e.isDir)),
              err |-> NilErr]

\* The service is asked for the files of one directory (file_list.go:34).
ListFilesCall(p) ==
    /\ reordered.done /\ ~listed.done
    /\ listed' = [done |-> TRUE, pos |-> p, files |-> ListFiles(p).files,
                  err |-> ListFiles(p).err]
    /\ UNCHANGED <<gitVars, reordered, fsys, rootPath, filter, pc, dir, subDirPaths, results,
                   semaphore, wg, mu, next, index, ret, logs, out>>

\* Directory listings: os.ReadDir returns the entries sorted by name.
DirEntry(name) == [name |-> name, isDir |-> TRUE, size |-> 0, infoOk |-> TRUE]
FileEntry(name, size, ok) == [name |-> name, isDir |-> FALSE, size |-> size, infoOk |-> ok]

\* The listings of plain files a directory can have.
NoFiles == <<>>
OneFile == <<FileEntry("f", 1, TRUE)>>
TwoFiles == <<FileEntry("f", 1, TRUE), FileEntry("g", 1, TRUE)>>
\* The metadata of "f" cannot be read: entry.Info() returns an error.
UnreadableFile == <<FileEntry("f", 1, FALSE), FileEntry("g", 1, TRUE)>>
FileLists == {NoFiles, OneFile, TwoFiles, UnreadableFile}

\* Shapes of the tree: <<n1, n2>> gives the root the sub-directories
\* DirNames[1..n1] and the directory "a" the sub-directories DirNames[1..n2].
Shapes == {<<0, 0>>, <<1, 0>>, <<1, 1>>, <<2, 0>>}
WideShapes == {<<3, 0>>, <<3, 3>>}

NSub(shape, p) ==
    IF p = <<>> THEN shape[1]
    ELSE IF p = <<"a">> THEN shape[2]
    ELSE IF p = <<"b">> /\ Len(shape) > 2 THEN shape[3]
    ELSE 0

\* The positions that exist in a tree of the given shape.
Exists(shape, p) ==
    \A k \in 1..Len(p) :
        \E i \in 1..NSub(shape, SubSeq(p, 1, k - 1)) : DirNames[i] = p[k]

\* No directory fails to list.
NoBad == [pos |-> <<"-">>, kind |-> "ok"]

\* The file system of the given shape in which directory p holds files[p] and
\* the directory bad.pos cannot be listed.
MkFS(shape, files, bad) ==
    [p \in Pos |->
        [status  |-> IF ~Exists(shape, p) THEN "missing"
                     ELSE IF p = bad.pos THEN bad.kind ELSE "ok",
         entries |-> IF ~Exists(shape, p) THEN <<>>
                     ELSE [i \in 1..NSub(shape, p) |-> DirEntry(DirNames[i])] \o files[p]]]

\* The filters: accept-all and Size > limit.
AcceptAll == [kind |-> "all", limit |-> 0]
SizeFilter(limit) == [kind |-> "size", limit |-> limit]
Filters == {AcceptAll} \cup {SizeFilter(l) : l \in 0..MaxLimit}

\* The state in which ListDirectoriesWithFilter(rootPath, filter) is called.
InitScan ==
    /\ pc = [p \in Pos |-> IF p = <<>> THEN "call" ELSE "idle"]
    /\ dir = [p \in Pos |-> EmptyDirectory]
    /\ subDirPaths = [p \in Pos |-> <<>>]
    /\ results = [p \in Pos |-> <<>>]
    /\ semaphore = [p \in Pos |-> 0]
    /\ wg = [p \in Pos |-> 0]
    /\ mu = [p \in Pos |-> "free"]
    /\ next = [p \in Pos |-> 0]
    /\ index = [p \in Pos |-> 0]
    /\ ret = [p \in Pos |-> [dir |-> EmptyDirectory, err |-> NilErr]]
    /\ logs = {}
    /\ out = [done |-> FALSE, dir |-> EmptyDirectory, err |-> NilErr]
    /\ reordered = [done |-> FALSE, flat |-> <<>>, result |-> <<>>]
    /\ listed = [done |-> FALSE, pos |-> <<>>, files |-> <<>>, err |-> NilErr]

\* The errors of UpdateRemote; NoError is nil.
NoError == ""
ErrOpen == "failed to open repo"
ErrGetConfig == "failed to get config"
ErrNoOrigin == "remote 'origin' not found in config"
ErrSetConfig == "failed to set config"
ErrFetchRollbackFailed == "fetch failed and rollback failed"
ErrFetchRolledBack == "fetch failed, rollback completed"

\* The errors of UpdateAllBranchesProject (root.go:109, 197, 174, 180).
ErrFetch == "fetch failed"
ErrGetHead == "failed to get HEAD"
ErrProcessingBranches == "failed processing branches"
ErrCheckoutBack == "failed to checkout back"

\* The local branches a repository can have, in the order in which
\* branches.ForEach visits them, and what head.Name().Short() gives when HEAD
\* is detached.
BranchNames == <<"develop", "feature", "main">>
BranchNameSet == {BranchNames[k] : k \in 1..Len(BranchNames)}
Detached == "HEAD"
Unborn == "unborn"

\* root.go:117-121: result := &UpdateResult{Updated: []string{}, ...}
EmptyResult == [Updated |-> <<>>, Skipped |-> <<>>, Failed |-> <<>>]

\* UpdateAllBranchesProject is not called.
UabIdle ==
    uab = [pc |-> "idle", ctx |-> "live", ctxAtCall |-> "live", kind |-> "missing",
           remoteUp |-> FALSE, upToDate |-> FALSE, branches |-> <<>>,
           head |-> Unborn, worktree |-> Unborn, tracking |-> {}, blocked |-> {},
           resetFails |-> {}, tip |-> [b \in BranchNameSet |-> "local"],
           currentBranch |-> "", i |-> 0, result |-> EmptyResult,
           returned |-> "nil", err |-> NoError]

\* The errors of the update-remote command (mr_repo_update_remote.go:25, 37).
ErrFlagRequired == "new-remote flag is required"
ErrReadDir == "failed to read directory"

\* The update-remote command is not run.
CmdIdle ==
    cmd = [pc |-> "idle", newRemote |-> <<>>, readable |-> TRUE, entries |-> <<>>,
           before |-> <<>>, read |-> FALSE, i |-> 0, calls |-> <<>>, warns |-> <<>>,
           err |-> NoError]

\* No call of the git service is made.
GitIdle ==
    /\ repo = [kind |-> "missing", urls |-> <<>>]
    /\ reachable = {}
    /\ ur = [pc |-> "idle", before |-> repo, newRemote |-> <<>>, ctx |-> "live",
             oldRemote |-> <<>>, newRemoteURL |-> <<>>, err |-> NoError]
    /\ UabIdle
    /\ CmdIdle

\* Small trees, every combination of file listings, filter and one failure.
Init ==
    /\ rootPath \in {<<"/", "r">>, <<"r">>}
    /\ filter \in Filters
    /\ \E shape \in Shapes :
       \E files \in [{p \in Pos : Exists(shape, p)} -> FileLists] :
       \E bad \in {NoBad} \cup {[pos |-> <<>>, kind |-> k] : k \in {"missing", "io"}}
                  \cup {[pos |-> p, kind |-> "perm"] : p \in Pos} :
          /\ Exists(shape, bad.pos) \/ bad = NoBad
          /\ fsys = MkFS(shape, files, bad)
    /\ InitScan
    /\ GitIdle

\* Wide trees: more sub-directories than permits, on two levels.  Every
\* directory holds one file, except those named "c", which are empty.
WideFiles == [p \in Pos |-> IF p # <<>> /\ p[Len(p)] = "c" THEN NoFiles ELSE OneFile]

InitWide ==
    /\ rootPath = <<"/", "r">>
    /\ filter \in {AcceptAll, SizeFilter(0)}
    /\ \E shape \in WideShapes :
       \E bad \in {NoBad, [pos |-> <<"b">>, kind |-> "perm"],
                   [pos |-> <<"a", "b">>, kind |-> "missing"]} :
          /\ Exists(shape, bad.pos) \/ bad = NoBad
          /\ fsys = MkFS(shape, WideFiles, bad)
    /\ InitScan
    /\ GitIdle

\* Nested trees: more sub-directories than permits under the root, and as
\* many directories as there are permits that have sub-directories of their
\* own, so that every permit of one level can be held by a task that waits
\* for the level below.
DeepShapes == {<<3, 1, 1>>, <<3, 3, 0>>}

InitDeep ==
    /\ rootPath = <<"/", "r">>
    /\ filter = SizeFilter(0)
    /\ \E shape \in DeepShapes :
       \E bad \in {NoBad, [pos |-> <<"a", "a">>, kind |-> "perm"],
                   [pos |-> <<"c">>, kind |-> "io"]} :
          /\ fsys = MkFS(shape, WideFiles, bad)
    /\ InitScan
    /\ GitIdle

(***************************************************************************)
(* The git service.  A string is a sequence of tokens: the separators and   *)
(* punctuation marks one by one, every name as one token.                  *)
(***************************************************************************)
\* strings.Contains, strings.HasPrefix, strings.HasSuffix, strings.TrimSuffix
Contains(str, sub) ==
    \E i \in 1..(Len(str) - Len(sub) + 1) : SubSeq(str, i, i + Len(sub) - 1) = sub
HasPrefix(str, prefix) ==
    Len(prefix) <= Len(str) /\ SubSeq(str, 1, Len(prefix)) = prefix
HasSuffix(str, suffix) ==
    Len(suffix) <= Len(str) /\ SubSeq(str, Len(str) - Len(suffix) + 1, Len(str)) = suffix
TrimSuffix(str, suffix) ==
    IF HasSuffix(str, suffix) THEN SubSeq(str, 1, Len(str) - Len(suffix)) ELSE str

\* strings.Index and strings.LastIndex of a one-token string, counted from 1;
\* 0 where Go returns -1.
Index(str, tok) ==
    IF \E i \in 1..Len(str) : str[i] = tok
    THEN CHOOSE i \in 1..Len(str) : str[i] = tok /\ \A j \in 1..(i - 1) : str[j] # tok
    ELSE 0
LastIndex(str, tok) ==
    IF \E i \in 1..Len(str) : str[i] = tok
    THEN CHOOSE i \in 1..Len(str) : str[i] = tok /\ \A j \in (i + 1)..Len(str) : str[j] # tok
    ELSE 0

\* path.Clean and filepath.Clean for paths without "." and ".." elements:
\* runs of separators become one, a trailing separator is dropped.
RECURSIVE Collapse(_)
Collapse(str) ==
    IF Len(str) <= 1 THEN str
    ELSE IF str[1] = "/" /\ str[2] = "/" THEN Collapse(Tail(str))
    ELSE <<str[1]>> \o Collapse(Tail(str))
Clean(str) ==
    LET c == Collapse(str)
    IN  IF c = <<>> THEN <<".">>
        ELSE IF Len(c) > 1 /\ c[Len(c)] = "/" THEN SubSeq(c, 1, Len(c) - 1)
        ELSE c

\* filepath.Join and path.Join of two elements
filepathJoin(a, b) ==
    IF a = <<>> /\ b = <<>> THEN <<>>
    ELSE IF a = <<>> THEN Clean(b)
    ELSE Clean(a \o <<"/">> \o b)
pathJoin(a, b) ==
    IF a = <<>> /\ b = <<>> THEN <<>>
    ELSE IF a = <<>> THEN Clean(b)
    ELSE IF b = <<>> THEN Clean(a)
    ELSE Clean(a \o <<"/">> \o b)

\* filepath.Base
RECURSIVE StripTrailingSeparators(_)
StripTrailingSeparators(str) ==
    IF str # <<>> /\ str[Len(str)] = "/"
    THEN StripTrailingSeparators(SubSeq(str, 1, Len(str) - 1))
    ELSE str
filepathBase(str) ==
    IF str = <<>> THEN <<".">>
    ELSE LET t == StripTrailingSeparators(str)
         IN  IF t = <<>> THEN <<"/">>
             ELSE SubSeq(t, LastIndex(t, "/") + 1, Len(t))

\* root.go:287-293
isNetworkRemote(remote) ==
    \/ HasPrefix(remote, <<"http", ":", "/", "/">>)
    \/ HasPrefix(remote, <<"https", ":", "/", "/">>)
    \/ HasPrefix(remote, <<"git", ":", "/", "/">>)
    \/ HasPrefix(remote, <<"ssh", ":", "/", "/">>)
    \/ Contains(remote, <<"@">>)

\* root.go:296-330
buildNetworkRemote(newRemote, oldRemote) ==
    LET repoPath ==
            IF Contains(oldRemote, <<":">>) /\ ~Contains(oldRemote, <<":", "/", "/">>)
            THEN SubSeq(oldRemote, Index(oldRemote, ":") + 1, Len(oldRemote))
            ELSE oldRemote
        lastSlash == LastIndex(repoPath, "/")
        lastBackslash == LastIndex(repoPath, "\\")
        lastSeparator == IF lastBackslash > lastSlash THEN lastBackslash ELSE lastSlash
        projectName ==
            TrimSuffix(IF lastSeparator # 0
                       THEN SubSeq(repoPath, lastSeparator + 1, Len(repoPath))
                       ELSE repoPath,
                       <<".git">>)
    IN  IF Contains(newRemote, <<":">>) /\ ~Contains(newRemote, <<":", "/", "/">>)
        THEN newRemote \o <<"/">> \o projectName \o <<".git">>
        ELSE pathJoin(newRemote, projectName \o <<".git">>)

\* Mutant: the project name is given the .git suffix whether or not the old
\* remote had it.
buildLocalRemoteAddSuffix(newRemote, oldRemote) ==
    filepathJoin(newRemote, TrimSuffix(filepathBase(oldRemote), <<".git">>) \o <<".git">>)

\* root.go:282-285
buildLocalRemote(newRemote, oldRemote) ==
    LET projectName == filepathBase(oldRemote)
    IN  filepathJoin(newRemote, projectName)

\* root.go:274-279
parseRemoteURL(newRemote, oldRemote) ==
    IF isNetworkRemote(oldRemote)
    THEN buildNetworkRemote(newRemote, oldRemote)
    ELSE buildLocalRemote(newRemote, oldRemote)

\* Mutant: a repository without origin is treated as having one.
OriginLookupDefault(cfg) ==
    [ok |-> TRUE, urls |-> IF cfg.urls = <<>> THEN << <<"/", "none">> >> ELSE cfg.urls]

\* root.go:243: remoteCfg, ok := cfg.Remotes["origin"]
OriginLookup(cfg) == [ok |-> cfg.urls # <<>>, urls |-> cfg.urls]

\* root.go:232-247: open the repository, read its config, look up origin,
\* and (248-250) compute the new URL
UpdateRemoteOpen ==
    /\ ur.pc = "call"
    /\ LET remoteCfg == OriginLookup(repo)
       IN  ur' = IF repo.kind \in {"missing", "notgit"}
                    THEN [ur EXCEPT !.pc = "done", !.err = ErrOpen]
                 ELSE IF repo.kind = "badconfig"
                    THEN [ur EXCEPT !.pc = "done", !.err = ErrGetConfig]
                 ELSE IF ~remoteCfg.ok
                    THEN [ur EXCEPT !.pc = "done", !.err = ErrNoOrigin]
                 ELSE [ur EXCEPT !.pc = "opened",
                                 !.oldRemote = remoteCfg.urls[1],
                                 !.newRemoteURL = parseRemoteURL(ur.newRemote, remoteCfg.urls[1])]
    /\ UNCHANGED <<scanVars, repo, reachable, uab, cmd>>

\* root.go:254-257: the new URL is written to the config; the write may fail
UpdateRemoteSet ==
    /\ ur.pc = "opened"
    /\ \/ /\ repo' = [repo EXCEPT !.urls = <<ur.newRemoteURL>>]
          /\ ur' = [ur EXCEPT !.pc = "set"]
       \/ /\ ur' = [ur EXCEPT !.pc = "done", !.err = ErrSetConfig]
          /\ UNCHANGED repo
    /\ UNCHANGED <<scanVars, reachable, uab, cmd>>

\* Mutant: the rewritten URL is written again.
RollbackURLsKeepNew(call) == <<call.newRemoteURL>>

\* root.go:263: remoteCfg.URLs = []string{oldRemote}
RollbackURLs(call) == <<call.oldRemote>>

\* root.go:102-112: the fetch from origin succeeds if the URL can be reached
\* before the context is done; "already up to date" is a success.
CanFetch == repo.urls[1] \in reachable /\ ur.ctx = "live"

\* root.go:259-270: fetch under a 10 s timeout; on failure the old URL is
\* written back, and that write may fail as well
UpdateRemoteFetch ==
    /\ ur.pc = "set"
    /\ \/ /\ CanFetch
          /\ ur' = [ur EXCEPT !.pc = "done", !.err = NoError]
          /\ UNCHANGED repo
       \/ /\ repo' = [repo EXCEPT !.urls = RollbackURLs(ur)]
          /\ ur' = [ur EXCEPT !.pc = "done", !.err = ErrFetchRolledBack]
       \/ /\ ur' = [ur EXCEPT !.pc = "done", !.err = ErrFetchRollbackFailed]
          /\ UNCHANGED repo
    /\ UNCHANGED <<scanVars, reachable, uab, cmd>>

\* The origin URLs of the repositories of the tests and the new remotes
\* given to UpdateRemote.
LocalGit == <<"/", "old", "/", "proj", ".git">>
LocalPlain == <<"/", "old", "/", "proj">>
LocalTrailing == <<"/", "old", "/", "proj", "/">>
HttpsOld == <<"https", ":", "/", "/", "host", "/", "org", "/", "proj", ".git">>
ScpOld == <<"git", "@", "host", ":", "org", "/", "proj", ".git">>
OldRemotes == {LocalGit, LocalPlain, LocalTrailing, HttpsOld, ScpOld}
NewRemotes ==
    {<<"/", "new">>, <<"/", "new", "/">>,
     <<"https", ":", "/", "/", "host", "/", "neworg">>,
     <<"git", "@", "host", ":", "neworg">>}
\* The repositories that may exist at the new place.
Hosted ==
    {<<"/", "new", "/", "proj", ".git">>, <<"/", "new", "/", "proj">>,
     <<"https", ":", "/", "/", "host", "/", "neworg", "/", "proj", ".git">>,
     <<"git", "@", "host", ":", "neworg", "/", "proj", ".git">>}

\* The repositories UpdateRemote is called on: no such path, a directory
\* that is no repository, a repository whose config cannot be read, one
\* without origin, and repositories whose origin has one or two URLs.
Repos ==
    {[kind |-> k, urls |-> <<>>] : k \in {"missing", "notgit", "badconfig", "repo"}}
      \cup {[kind |-> "repo", urls |-> <<u>>] : u \in OldRemotes}
      \cup {[kind |-> "repo", urls |-> <<LocalGit, HttpsOld>>]}

\* The scanner, on an empty root, is not part of the runs of the git service.
ScanIdle ==
    /\ rootPath = <<"/", "r">> /\ filter = AcceptAll
    /\ fsys = MkFS(<<0, 0>>, [p \in Pos |-> NoFiles], NoBad)
    /\ InitScan

\* UpdateRemote(ctx, repoPath, newRemote) is called.
InitGit ==
    /\ repo \in Repos
    /\ reachable \in SUBSET Hosted
    /\ \E newRemote \in NewRemotes : \E ctx \in {"live", "canceled"} :
          ur = [pc |-> "call", before |-> repo, newRemote |-> newRemote, ctx |-> ctx,
                oldRemote |-> <<>>, newRemoteURL |-> <<>>, err |-> NoError]
    /\ ScanIdle
    /\ UabIdle
    /\ CmdIdle

NextGit == UpdateRemoteOpen \/ UpdateRemoteSet \/ UpdateRemoteFetch

(***************************************************************************)
(* UpdateAllBranchesProject.  uab holds the repository (kind, branches,     *)
(* head, worktree, tracking, tip and what makes a checkout or a reset fail) *)
(* and the call (ctx, currentBranch, i, result and what is returned).       *)
(***************************************************************************)
\* root.go:195-199: head.Name().Short() of repo.Head()
getCurrentBranch(call) ==
    IF call.head = Unborn THEN [name |-> "", err |-> ErrGetHead]
    ELSE [name |-> call.head, err |-> NoError]

\* Mutant: the loop never finds the context done.
ctxDoneNever(call) == FALSE

\* root.go:151-155: select { case <-ctx.Done(): return ctx.Err() ... }
ctxDone(call) == call.ctx = "canceled"

\* Mutant: no branch is taken for the current one.
IsCurrentBranchNever(call, branchName) == FALSE

\* root.go:160: if branchName == currentBranch
IsCurrentBranch(call, branchName) == branchName = call.currentBranch

\* worktree.Checkout(Branch: refs/heads/<branchName>, Force: false): fails when
\* there is no such branch or the worktree does not allow leaving its state.
CheckoutFails(call, branchName) ==
    \/ \A k \in 1..Len(call.branches) : call.branches[k] # branchName
    \/ branchName \in call.blocked

\* root.go:203-228: updateBranch.  The value is the call after it, with
\* failed set when it returned an error.
updateBranch(call, branchName) ==
    IF branchName \notin call.tracking
       THEN [call EXCEPT !.result.Skipped = Append(@, branchName)] @@ [failed |-> FALSE]
    ELSE IF CheckoutFails(call, branchName)
       THEN call @@ [failed |-> TRUE]
    ELSE IF branchName \in call.resetFails
       THEN [call EXCEPT !.worktree = branchName] @@ [failed |-> TRUE]
    ELSE [call EXCEPT !.worktree = branchName,
                      !.tip[branchName] = "origin",
                      !.result.Updated = Append(@, branchName)] @@ [failed |-> FALSE]

\* Mutant: the worktree is left where the last branch put it.
CheckoutBackBranchStay(call) == call.worktree

\* root.go:178-180: Branch: plumbing.NewBranchReferenceName(currentBranch)
CheckoutBackBranch(call) == call.currentBranch

\* root.go:123-126: git.PlainOpen(repoPath)
UabOpen ==
    /\ uab.pc = "call"
    /\ uab' = IF uab.kind # "repo"
                 THEN [uab EXCEPT !.pc = "returned", !.err = ErrOpen]
              ELSE [uab EXCEPT !.pc = "opened"]
    /\ UNCHANGED <<scanVars, repo, reachable, ur, cmd>>

\* root.go:128-142 (fetch: 102-112): the fetch succeeds only if origin can
\* be reached; with the context done it can still succeed when there is
\* nothing to transfer ("already up to date" is a success, root.go:108).
\* Then the current branch is read.
UabFetch ==
    /\ uab.pc = "opened"
    /\ \/ /\ uab.remoteUp /\ (uab.ctx = "live" \/ uab.upToDate)
          /\ LET cur == getCurrentBranch(uab)
             IN  uab' = IF cur.err # NoError
                           THEN [uab EXCEPT !.pc = "returned", !.err = cur.err]
                        ELSE [uab EXCEPT !.pc = "loop", !.currentBranch = cur.name, !.i = 1]
       \/ /\ ~uab.remoteUp \/ uab.ctx = "canceled"
          /\ uab' = [uab EXCEPT !.pc = "returned", !.err = ErrFetch]
    /\ UNCHANGED <<scanVars, repo, reachable, ur, cmd>>

\* root.go:149-171: one call of the function given to branches.ForEach
UabBranch ==
    /\ uab.pc = "loop"
    /\ uab.i <= Len(uab.branches)
    /\ LET branchName == uab.branches[uab.i]
           after == updateBranch(uab, branchName)
       IN  uab' =
             IF ctxDone(uab)
                THEN [uab EXCEPT !.pc = "returned", !.err = ErrProcessingBranches]
             ELSE IF IsCurrentBranch(uab, branchName)
                THEN [uab EXCEPT !.result.Skipped = Append(@, branchName), !.i = @ + 1]
             ELSE IF after.failed
                THEN [uab EXCEPT !.worktree = after.worktree,
                                 !.result.Failed = Append(@, branchName), !.i = @ + 1]
             ELSE [uab EXCEPT !.worktree = after.worktree, !.tip = after.tip,
                              !.result = after.result, !.i = @ + 1]
    /\ UNCHANGED <<scanVars, repo, reachable, ur, cmd>>

\* root.go:177-191: the worktree is checked out on the original branch and
\* the result is returned
UabCheckoutBack ==
    /\ uab.pc = "loop"
    /\ uab.i > Len(uab.branches)
    /\ LET branch == CheckoutBackBranch(uab)
       IN  uab' = IF CheckoutFails(uab, branch)
                     THEN [uab EXCEPT !.pc = "returned", !.err = ErrCheckoutBack]
                  ELSE [uab EXCEPT !.pc = "returned", !.worktree = branch,
                                   !.returned = "result"]
    /\ UNCHANGED <<scanVars, repo, reachable, ur, cmd>>

\* The caller's context is cancelled, or its deadline passes, during the call.
UabCancel ==
    /\ uab.pc \in {"opened", "loop"}
    /\ uab.ctx = "live"
    /\ uab' = [uab EXCEPT !.ctx = "canceled"]
    /\ UNCHANGED <<scanVars, repo, reachable, ur, cmd>>

\* The sequence of the names of the set in the order of BranchNames.
RECURSIVE InOrder(_, _)
InOrder(names, k) ==
    IF k > Len(BranchNames) THEN <<>>
    ELSE (IF BranchNames[k] \in names THEN <<BranchNames[k]>> ELSE <<>>)
           \o InOrder(names, k + 1)

\* UpdateAllBranchesProject(ctx, repoPath) is called on no repository or on
\* a repository with any of the branches, HEAD on one of them or detached.
InitBranches ==
    /\ \E kind \in {"missing", "notgit", "repo"} :
       \E names \in SUBSET BranchNameSet :
       \E head \in (IF names = {} THEN {Unborn} ELSE names \cup {Detached}) :
       \E tracking \in SUBSET names :
       \E blocked \in SUBSET (names \cap {"feature", "main"}) :
       \E resetFails \in SUBSET (names \cap {"develop"}) :
       \E ctx \in {"live", "canceled"} :
       \E remoteUp \in BOOLEAN : \E upToDate \in BOOLEAN :
          /\ kind = "repo" \/ (names = {} /\ ~remoteUp /\ ~upToDate)
          /\ remoteUp \/ (~upToDate /\ tracking = {})
          /\ uab = [pc |-> "call", ctx |-> ctx, ctxAtCall |-> ctx, kind |-> kind,
                    remoteUp |-> remoteUp, upToDate |-> upToDate,
                    branches |-> InOrder(names, 1), head |-> head,
                    worktree |-> head, tracking |-> tracking, blocked |-> blocked,
                    resetFails |-> resetFails,
                    tip |-> [b \in BranchNameSet |-> "local"],
                    currentBranch |-> "", i |-> 0, result |-> EmptyResult,
                    returned |-> "nil", err |-> NoError]
    /\ repo = [kind |-> "missing", urls |-> <<>>]
    /\ reachable = {}
    /\ ur = [pc |-> "idle", before |-> repo, newRemote |-> <<>>, ctx |-> "live",
             oldRemote |-> <<>>, newRemoteURL |-> <<>>, err |-> NoError]
    /\ ScanIdle
    /\ CmdIdle

NextBranches == UabOpen \/ UabFetch \/ UabBranch \/ UabCheckoutBack \/ UabCancel

SpecBranches == InitBranches /\ [][NextBranches]_vars

(***************************************************************************)
(* The update-remote command.  cmd holds the flag, the entries of the       *)
(* current directory with the repository each directory is, and the run.   *)
(***************************************************************************)
\* os.Getwd()
currDir == <<"/", "work">>

\* Mutant: an empty flag value is let through.
FlagMissingNever(newRemote) == FALSE

\* mr_repo_update_remote.go:24: if newRemote == ""
FlagMissing(newRemote) == newRemote = <<>>

\* mr_repo_update_remote.go:18-38: the flag is read and checked, then the
\* current directory is listed
CmdRun ==
    /\ cmd.pc = "run"
    /\ cmd' = IF FlagMissing(cmd.newRemote)
                 THEN [cmd EXCEPT !.pc = "returned", !.err = ErrFlagRequired]
              ELSE IF ~cmd.readable
                 THEN [cmd EXCEPT !.pc = "returned", !.read = TRUE, !.err = ErrReadDir]
              ELSE [cmd EXCEPT !.pc = "loop", !.read = TRUE, !.i = 1]
    /\ UNCHANGED <<scanVars, repo, reachable, ur, uab>>

\* mr_repo_update_remote.go:40-47: an entry that is no directory is passed
\* over; for a directory UpdateRemote(context.Background(), absPath,
\* newRemote) is called
CmdEntry ==
    /\ cmd.pc = "loop"
    /\ cmd.i <= Len(cmd.entries)
    /\ LET entry == cmd.entries[cmd.i]
       IN  IF ~entry.isDir
              THEN /\ cmd' = [cmd EXCEPT !.i = @ + 1]
                   /\ UNCHANGED <<repo, ur>>
           ELSE /\ cmd' = [cmd EXCEPT !.pc = "calling"]
                /\ repo' = entry.repo
                /\ ur' = [pc |-> "call", before |-> entry.repo,
                          newRemote |-> cmd.newRemote, ctx |-> "live",
                          oldRemote |-> <<>>, newRemoteURL |-> <<>>, err |-> NoError]
    /\ UNCHANGED <<scanVars, reachable, uab>>

\* mr_repo_update_remote.go:47-49: UpdateRemote has returned; its error is
\* logged as a warning and the loop goes on
CmdCallReturned ==
    /\ cmd.pc = "calling"
    /\ ur.pc = "done"
    /\ LET absPath == filepathJoin(currDir, <<cmd.entries[cmd.i].name>>)
       IN  cmd' = [cmd EXCEPT !.pc = "loop", !.i = @ + 1,
                              !.entries[cmd.i].repo = repo,
                              !.calls = Append(@, [path |-> absPath, err |-> ur.err]),
                              !.warns = IF ur.err # NoError
                                           THEN Append(@, [path |-> absPath, err |-> ur.err])
                                        ELSE @]
    /\ ur' = [ur EXCEPT !.pc = "idle"]
    /\ UNCHANGED <<scanVars, repo, reachable, uab>>

\* mr_repo_update_remote.go:51: return nil
CmdReturn ==
    /\ cmd.pc = "loop"
    /\ cmd.i > Len(cmd.entries)
    /\ cmd' = [cmd EXCEPT !.pc = "returned", !.err = NoError]
    /\ UNCHANGED <<scanVars, repo, reachable, ur, uab>>

\* The entries a directory of repositories can hold: a file, a directory
\* that is no repository, and repositories with origin.
EntryKinds ==
    {[isDir |-> FALSE, repo |-> [kind |-> "notgit", urls |-> <<>>]],
     [isDir |-> TRUE, repo |-> [kind |-> "notgit", urls |-> <<>>]],
     [isDir |-> TRUE, repo |-> [kind |-> "repo", urls |-> <<HttpsOld>>]],
     [isDir |-> TRUE, repo |-> [kind |-> "repo", urls |-> <<LocalGit>>]]}
EntryNames == <<"test-repo-1", "test-repo-2">>

\* The update-remote command is run in a directory of up to two entries,
\* with the flag missing or empty, or with a new remote that can be reached
\* or not.
InitCmd ==
    /\ \E n \in 0..Len(EntryNames) : \E kinds \in [1..n -> EntryKinds] :
       \E newRemote \in {<<>>, <<"/", "new">>,
                         <<"https", ":", "/", "/", "host", "/", "neworg">>} :
       \E readable \in BOOLEAN :
          LET entries == [k \in 1..n |-> kinds[k] @@ [name |-> EntryNames[k]]]
          IN  cmd = [pc |-> "run", newRemote |-> newRemote, readable |-> readable,
                     entries |-> entries, before |-> entries, read |-> FALSE,
                     i |-> 0, calls |-> <<>>, warns |-> <<>>, err |-> NoError]
    /\ reachable \in {{}, Hosted}
    /\ repo = [kind |-> "missing", urls |-> <<>>]
    /\ ur = [pc |-> "idle", before |-> repo, newRemote |-> <<>>, ctx |-> "live",
             oldRemote |-> <<>>, newRemoteURL |-> <<>>, err |-> NoError]
    /\ ScanIdle
    /\ UabIdle

NextCmd ==
    \/ CmdRun \/ CmdEntry \/ CmdCallReturned \/ CmdReturn
    \/ UpdateRemoteOpen \/ UpdateRemoteSet \/ UpdateRemoteFetch

SpecCmd == InitCmd /\ [][NextCmd]_vars

\* The steps of the scan itself: those of the calls of getDirectoryRecursively
\* and of the goroutines they start.
ScanNext ==
    \/ \E p \in Pos : ReadDir(p) \/ Dispatch(p) \/ Wait(p) \/ Filter(p)
    \/ \E q \in Pos \ {<<>>} :
          Acquire(q) \/ TaskError(q) \/ Lock(q) \/ Write(q) \/ Unlock(q)
            \/ Release(q) \/ Done(q)
    \/ Return

Next ==
    \/ ScanNext
    \/ Reorder
    \/ \E p \in Pos : ListFilesCall(p)

Spec == Init /\ [][Next]_vars
SpecWide == InitWide /\ [][Next]_vars
SpecGit == InitGit /\ [][NextGit]_vars

\* The Go scheduler runs every goroutine that can take a step, and a caller
\* goes on once the call it made has returned: the scan is never left
\* standing while one of its steps is possible.
SpecDeepFair == InitDeep /\ [][Next]_vars /\ WF_vars(ScanNext)

(***************************************************************************)
(* Reference definitions the properties are stated with.  They are computed *)
(* from the file system alone, independently of the scan's state.          *)
(***************************************************************************)
RECURSIVE SumOf(_)
SumOf(s) == IF s = <<>> THEN 0 ELSE s[1] + SumOf(Tail(s))

\* The listed sub-directory positions of p, in listing order.
ListedSubDirs(p) ==
    MapSeq(LAMBDA e : Append(p, e.name), SelectSeq(fsys[p].entries, LAMBDA e : e.isDir))
\* The sizes of the plain files listed in p.
ListedFileSizes(p) ==
    MapSeq(LAMBDA e : e.size, SelectSeq(fsys[p].entries, LAMBDA e : ~e.isDir))

\* Sum of the sizes of all files anywhere below p: a full enumeration.
RECURSIVE TotalFileSize(_)
TotalFileSize(p) ==
    SumOf(ListedFileSizes(p)) + SumOf(MapSeq(TotalFileSize, ListedSubDirs(p)))

\* The positions of the tree: those reached from the root through listings.
RECURSIVE Reachable(_)
Reachable(p) ==
    {p} \cup UNION {Reachable(ListedSubDirs(p)[i]) : i \in 1..Len(ListedSubDirs(p))}
Tree == Reachable(<<>>)
NoReadFailures == \A p \in Tree : fsys[p].status = "ok"

\* The nodes of a returned tree: the node itself and all its descendants.
RECURSIVE Nodes(_)
Nodes(d) == {d} \cup UNION {Nodes(d.SubDirs[i]) : i \in 1..Len(d.SubDirs)}

\* The scan of p has returned to its caller.
Returned(p) == pc[p] \in {"returned", "locked", "written", "release", "wgdone", "done"}

(***************************************************************************)
(* Properties.                                                             *)
(***************************************************************************)
\* The aggregate-size equation at one node.
AggregateAt(d) == d.Size = SumSizes(d.Files) + SumSizes(d.SubDirs)

\* C1: every directory node a scan returns, at any depth, has Size equal to
\* the sum of its immediate files' sizes plus the sum of the Size of every
\* child kept in its SubDirs.
C1_AggregateSize ==
    \A p \in Pos : Returned(p) => \A d \in Nodes(ret[p].dir) : AggregateAt(d)

\* C2: with no read failures and the accept-all filter, the Size of the
\* returned root is the sum of the sizes of all files anywhere in the tree.
C2_RootSizeIsTotal ==
    (out.done /\ filter = AcceptAll /\ NoReadFailures)
        => out.dir.Size = TotalFileSize(<<>>)

\* The tasks of p's processSubDirectories, by position.
Tasks(p) == {PosOf(subDirPaths[p][i]) : i \in 1..Len(subDirPaths[p])}
\* A task that has acquired a permit and not yet given it back.
HoldsPermit(q) ==
    pc[q] \in {"call", "dispatch", "wait", "filter", "returned", "locked",
               "written", "release"}
Holders(p) == {q \in Tasks(p) : HoldsPermit(q)}

\* C3: within one processSubDirectories invocation at most maxWorkers tasks
\* hold a permit at any moment, and a task that finds them all taken cannot
\* proceed.
C3_AtMostKRunning ==
    \A p \in Pos :
        /\ Cardinality(Holders(p)) <= maxWorkers
        /\ \A q \in Tasks(p) :
              (pc[q] = "spawned" /\ Cardinality(Holders(p)) = maxWorkers)
                  => ~ENABLED Acquire(q)

\* C3 witness: all permits of one invocation are taken and another of its
\* tasks waits for one.
C3_Witness ==
    \E p \in Pos : /\ Cardinality(Holders(p)) = maxWorkers
                   /\ \E q \in Tasks(p) : pc[q] = "spawned"

\* The call of p has passed the join barrier of its processSubDirectories.
PastJoin(p) == Len(subDirPaths[p]) > 0 /\ pc[p] \in {"filter"} \cup
                   {"returned", "locked", "written", "release", "wgdone", "done"}

\* C4: processSubDirectories compacts its results and returns only after every
\* task it dispatched has written its slot and completed.
C4_JoinBarrier ==
    \A p \in Pos : PastJoin(p) => \A q \in Tasks(p) : pc[q] = "done"

\* C4 witness: a call with more tasks than permits has passed its barrier.
C4_Witness ==
    \E p \in Pos : /\ PastJoin(p)
                   /\ Cardinality(Tasks(p)) > maxWorkers
                   /\ \A q \in Tasks(p) : pc[q] = "done"

\* The full paths of the entries of a child list.
PathsIn(ds) == {ds[i].FullPath : i \in 1..Len(ds)}
\* The listed sub-directory q of p scanned successfully and passed the filter.
Kept(q) == Returned(q) /\ ret[q].err = NilErr /\ ret[q].dir # EmptyDirectory

\* C5: when the scan of a sub-directory fails, the parent's scan still succeeds,
\* the failed sub-directory is absent from the parent's SubDirs and adds
\* nothing to its Size, and every sibling that scanned successfully and
\* passed the filter is present.
C5_FailedSubDirDropped ==
    \A p \in Pos :
        (PastJoin(p) /\ \E q \in Tasks(p) : fsys[q].status # "ok") =>
            /\ Returned(p) => ret[p].err = NilErr
            /\ \A q \in Tasks(p) :
                  IF fsys[q].status # "ok"
                  THEN Abs(PathOf(q)) \notin PathsIn(dir[p].SubDirs)
                  ELSE Kept(q) =>
                         \E i \in 1..Len(dir[p].SubDirs) : dir[p].SubDirs[i] = ret[q].dir
            /\ Len(dir[p].SubDirs) = Cardinality({q \in Tasks(p) : Kept(q)})
            /\ dir[p].Size <= SumSizes(dir[p].Files) + SumSizes(dir[p].SubDirs)

\* C5 witness: a parent has returned with one sub-directory failed and a
\* sibling of it kept.
C5_Witness ==
    \E p \in Pos :
        /\ Returned(p) /\ ret[p].err = NilErr /\ ret[p].dir # EmptyDirectory
        /\ \E q \in Tasks(p) : fsys[q].status # "ok"
        /\ \E q \in Tasks(p) : Kept(q) /\ ret[q].dir \in Nodes(ret[p].dir)

\* C6: when the root cannot be listed, ListDirectoriesWithFilter returns a
\* non-nil error with the empty Directory, and no sub-directory task is ever
\* dispatched.
C6_RootFailureAborts ==
    fsys[<<>>].status # "ok" =>
        /\ \A q \in Pos \ {<<>>} : pc[q] = "idle"
        /\ out.done => (out.err # NilErr /\ out.dir = EmptyDirectory)
        /\ pc[<<>>] \in {"call", "returned", "done"}

\* C6 witness: the call on a root that does not exist has returned.
C6_Witness == fsys[<<>>].status = "missing" /\ out.done /\ out.err # NilErr

IsPrefix(a, b) == Len(a) <= Len(b) /\ SubSeq(b, 1, Len(a)) = a
\* The caller's filter returned false for the aggregated node of p.
Rejected(p) ==
    /\ Returned(p) /\ ret[p].err = NilErr
    /\ filter.kind = "size" /\ ~(dir[p].Size > filter.limit)
\* The trees returned so far that cover position p: those of the calls on p
\* and on its ancestors, and the top-level result.
TreesOver(p) ==
    {ret[r].dir : r \in {a \in Pos : IsPrefix(a, p) /\ Returned(a)}} \cup {out.dir}

\* C7: when the filter returns false for a directory, neither that directory
\* nor any of its descendants appears anywhere in a returned tree.
C7_NonPropagatingFilter ==
    \A p \in Pos : Rejected(p) =>
        \A t \in TreesOver(p) : \A d \in Nodes(t) :
            ~IsPrefix(Abs(PathOf(p)), d.FullPath)

\* C7 witness: the scan is over, a directory was rejected, and a descendant
\* of it had passed the filter on its own.
C7_Witness ==
    /\ out.done /\ out.err = NilErr /\ out.dir # EmptyDirectory
    /\ \E p \in Pos \ {<<>>} : /\ Rejected(p)
                               /\ \E q \in Tasks(p) : Kept(q)

\* All tasks of p are through and p has not yet compacted its results.
AtBarrier(p) == pc[p] = "wait" /\ wg[p] = 0

\* C8: after the join and before compaction, slot i holds the scan result of
\* paths[i] or the empty marker, never the result of another path.
C8_SlotMatchesPath ==
    \A p \in Pos : AtBarrier(p) =>
        \A i \in 1..Len(subDirPaths[p]) :
            LET q == PosOf(subDirPaths[p][i])
            IN  /\ results[p][i] = IF Kept(q) THEN ret[q].dir ELSE EmptyDirectory
                /\ results[p][i] # EmptyDirectory =>
                      results[p][i].FullPath = Abs(subDirPaths[p][i])

\* C8 witness: at the barrier of a call with more tasks than permits, two
\* slots are filled.
C8_Witness ==
    \E p \in Pos :
        /\ AtBarrier(p) /\ Len(subDirPaths[p]) > maxWorkers
        /\ \E i, j \in 1..Len(results[p]) :
              i # j /\ results[p][i] # EmptyDirectory /\ results[p][j] # EmptyDirectory

\* The listing index of the sub-directory of p a node was scanned from.
ListingIndex(p, d) ==
    CHOOSE i \in 1..Len(subDirPaths[p]) : Abs(subDirPaths[p][i]) = d.FullPath

\* C9: compaction removes exactly the empty slots and keeps the surviving
\* entries in the order of their paths in the input list.
C9_CompactionKeepsOrder ==
    \A p \in Pos : PastJoin(p) =>
        LET kept == dir[p].SubDirs
        IN  /\ \A j \in 1..Len(kept) : kept[j] # EmptyDirectory
            /\ \A i \in 1..Len(results[p]) :
                  results[p][i] # EmptyDirectory =>
                      \E j \in 1..Len(kept) : kept[j] = results[p][i]
            /\ Len(kept) =
                  Cardinality({i \in 1..Len(results[p]) : results[p][i] # EmptyDirectory})
            /\ \A j, k \in 1..Len(kept) :
                  j < k => ListingIndex(p, kept[j]) < ListingIndex(p, kept[k])

\* C9 witness: a compaction dropped the middle slot and kept its neighbours.
C9_Witness ==
    \E p \in Pos :
        /\ PastJoin(p) /\ Len(results[p]) = 3
        /\ results[p][2] = EmptyDirectory
        /\ dir[p].SubDirs = <<results[p][1], results[p][3]>>
        /\ results[p][1] # EmptyDirectory /\ results[p][3] # EmptyDirectory

\* The scan of p carried out sequentially.
RECURSIVE RefScan(_)
RefScan(p) ==
    LET r == readDirectory(p)
        m == manageDirEntries(PathOf(p), r.entries)
        subs == MapSeq(LAMBDA path : RefScan(PosOf(path)).dir, m.subDirPaths)
    IN  IF r.err # NilErr THEN [dir |-> EmptyDirectory, err |-> r.err]
        ELSE FilterReturn(filter, [m.dir EXCEPT !.SubDirs = filterResults(subs)])

\* The number of entries of the pre-order flattening of a tree.
RECURSIVE CountNodes(_)
CountNodes(d) == 1 + SumOf(MapSeq(CountNodes, d.SubDirs))

\* C10: with the accept-all filter and no read failures, the root has one
\* child per listed sub-directory, none lost or duplicated, also when they
\* outnumber the permits, and the returned tree is the same under every
\* scheduling.
C10_AllChildrenAnyOrder ==
    (out.done /\ filter = AcceptAll /\ NoReadFailures) =>
        /\ out.err = NilErr
        /\ Len(out.dir.SubDirs) = Len(ListedSubDirs(<<>>))
        /\ \A i \in 1..Len(out.dir.SubDirs) :
              out.dir.SubDirs[i].FullPath = Abs(PathOf(ListedSubDirs(<<>>)[i]))
        /\ CountNodes(out.dir) = Cardinality(Tree)
        /\ out.dir = RefScan(<<>>).dir

\* C10 witness: a root with more sub-directories than permits, all leaves,
\* was scanned into N + 1 nodes.
C10_Witness ==
    /\ out.done /\ filter = AcceptAll /\ NoReadFailures
    /\ Len(ListedSubDirs(<<>>)) > maxWorkers
    /\ Cardinality(Tree) = Len(ListedSubDirs(<<>>)) + 1
    /\ CountNodes(out.dir) = Len(ListedSubDirs(<<>>)) + 1

\* C11: every task that acquires a permit gives it back exactly once, on the
\* success path and on the error path alike, so the permits taken are those
\* of the tasks between acquire and release, and none is held once
\* processSubDirectories has returned.
C11_PermitsReleased ==
    \A p \in Pos :
        /\ semaphore[p] = Cardinality(Holders(p))
        /\ PastJoin(p) => semaphore[p] = 0

\* C11 witness: a call has returned from processSubDirectories, one of its
\* tasks having failed and one having succeeded.
C11_Witness ==
    \E p \in Pos :
        /\ PastJoin(p) /\ semaphore[p] = 0
        /\ \E q \in Tasks(p) : ret[q].err # NilErr
        /\ \E q \in Tasks(p) : Kept(q)

\* The task has executed its write of the results slice.
HasWritten(q) ==
    \/ pc[q] = "written"
    \/ pc[q] \in {"release", "wgdone", "done"} /\ ret[q].err = NilErr
\* The task is between mu.Lock() and mu.Unlock().
InCritical(q) == pc[q] \in {"locked", "written"}
\* The task may still write the results slice.
MayStillWrite(q) ==
    pc[q] \in {"idle", "spawned", "call", "dispatch", "wait", "filter",
               "returned", "locked"} /\ ~(pc[q] = "returned" /\ ret[q].err # NilErr)

\* C12: within one processSubDirectories invocation no two tasks write the
\* same slot, no slot is written twice, at most one task is inside the
\* mutex-protected write, and the parent does not read the results while a
\* task can still write them.
C12_ExclusiveSlots ==
    \A p \in Pos :
        /\ \A q1, q2 \in Tasks(p) :
              (q1 # q2 /\ pc[q1] # "idle" /\ pc[q2] # "idle") => Slot(q1) # Slot(q2)
        /\ \A i \in 1..Len(results[p]) :
              Cardinality({q \in Tasks(p) : HasWritten(q) /\ Slot(q) = i}) <= 1
        /\ Cardinality({q \in Tasks(p) : InCritical(q)}) <= 1
        /\ (mu[p] = "held") <=> (\E q \in Tasks(p) : InCritical(q))
        /\ (\E q \in Tasks(p) : MayStillWrite(q)) => (~ENABLED Wait(p) /\ ~PastJoin(p))

\* C12 witness: one task is inside the write while another, done with its
\* scan, waits for the mutex.
C12_Witness ==
    \E p \in Pos : \E q1, q2 \in Tasks(p) :
        /\ InCritical(q1)
        /\ pc[q2] = "returned" /\ ret[q2].err = NilErr

\* The call on q has read its directory: it failed, or built its node.
WasRead(q) == ret[q].err # NilErr \/ dir[q].FullPath = Abs(PathOf(q))

\* Every task of a finished invocation has read its directory and is done; a
\* task that has its permit can always read, whatever its siblings did; and
\* the scan is never stuck before the top-level call has returned.
C13_State ==
    /\ \A p \in Pos : PastJoin(p) =>
          \A q \in Tasks(p) : pc[q] = "done" /\ WasRead(q)
    /\ \A q \in Pos : pc[q] = "call" => ENABLED ReadDir(q)
    /\ ~out.done => ENABLED Next

\* A directory is read only by a task that has just acquired its permit, a
\* task is started only once, and nothing returns to an earlier point.
C13_Step ==
    \A q \in Pos :
        /\ (pc'[q] = "call" /\ pc[q] # "call") => pc[q] = "spawned"
        /\ (pc'[q] = "spawned" /\ pc[q] # "spawned") => pc[q] = "idle"
        /\ pc[q] # "idle" => pc'[q] # "idle"
        /\ pc[q] = "done" => pc'[q] = "done"

\* C13: every sub-directory path handed to the scheduler is scanned exactly
\* once: its task is started and runs to completion or failure whatever its
\* siblings do, and no directory is read again after a failure.
C13_ScannedExactlyOnce == []C13_State /\ [][C13_Step]_vars

\* C13 witness: the scan is over, and in one invocation a task failed and a
\* sibling ran to completion.
C13_Witness ==
    /\ out.done
    /\ \E p \in Pos : \E q1, q2 \in Tasks(p) :
          /\ pc[q1] = "done" /\ ret[q1].err # NilErr
          /\ pc[q2] = "done" /\ Kept(q2)

\* The children of p that scanned successfully and passed the filter, in
\* listing order.
KeptChildren(p) ==
    MapSeq(LAMBDA path : ret[PosOf(path)].dir,
           SelectSeq(subDirPaths[p], LAMBDA path : Kept(PosOf(path))))

\* The filter is about to be invoked only on a directory that was listed, all
\* of whose tasks are done and whose children are the kept ones; when the
\* scan is over it has been invoked for every directory that was listed.
C14_State ==
    /\ \A p \in Pos : pc[p] = "filter" =>
          /\ fsys[p].status = "ok"
          /\ \A q \in Tasks(p) : pc[q] = "done"
          /\ dir[p].SubDirs = KeptChildren(p)
    /\ \A p \in Pos : fsys[p].status # "ok" => ~ENABLED Filter(p)
    /\ out.done => \A p \in Pos :
          (pc[p] # "idle" /\ fsys[p].status = "ok") => (Returned(p) /\ ret[p].err = NilErr)

\* The filter is reached once, from the listing or from the join, and the
\* node it was given does not change afterwards.
C14_Step ==
    \A p \in Pos :
        /\ (pc'[p] = "filter" /\ pc[p] # "filter") => pc[p] \in {"call", "wait"}
        /\ (pc[p] = "filter" /\ pc'[p] # "filter") =>
              (pc'[p] = "returned" /\ ret'[p].err = NilErr)
        /\ (pc[p] = "filter" \/ Returned(p)) => dir'[p] = dir[p]

\* C14: the filter is invoked exactly once for each directory that is listed
\* successfully, after all of its sub-directory tasks have completed and its
\* Size and SubDirs are final, and never for a directory whose listing failed.
C14_FilterOncePerDirectory == []C14_State /\ [][C14_Step]_vars

\* C14 witness: the filter is about to be invoked on a directory whose tasks
\* outnumbered the permits, one of them having failed.
C14_Witness ==
    \E p \in Pos :
        /\ pc[p] = "filter" /\ Cardinality(Tasks(p)) > maxWorkers
        /\ \E q \in Tasks(p) : ret[q].err # NilErr
        /\ dir[p].SubDirs # <<>>

\* The scenario of the size-filter example: the root holds exactly the
\* sub-directories "a" and "b"; "a" holds a single file and nothing else, "b"
\* is empty; nothing fails; the filter is Size > limit and the file of "a" is
\* larger than the limit.
LargeAndEmptySibling ==
    /\ NoReadFailures
    /\ ListedSubDirs(<<>>) = << <<"a">>, <<"b">> >>
    /\ ListedSubDirs(<<"a">>) = <<>> /\ Len(ListedFileSizes(<<"a">>)) = 1
    /\ fsys[<<"b">>].entries = <<>>
    /\ filter.kind = "size" /\ TotalFileSize(<<"a">>) > filter.limit

\* The directory nodes of a scan result; the empty marker stands for none.
ResultSet(d) == IF d = EmptyDirectory THEN {} ELSE {n.FullPath : n \in Nodes(d)}

\* C15: for a root with one sub-directory holding a single file larger than
\* the limit and one empty sibling, the scan with the filter Size > limit
\* yields exactly the large sub-directory's node, plus the root only if the
\* root's total exceeds the limit as well.
C15_OnlyLargeSubDir ==
    (out.done /\ LargeAndEmptySibling) =>
        /\ out.err = NilErr
        /\ ResultSet(out.dir) =
              {Abs(PathOf(<<"a">>))}
                \cup (IF TotalFileSize(<<>>) > filter.limit THEN {Abs(rootPath)} ELSE {})

\* The paths of a sequence of directory nodes.
PathsOf(ds) == [i \in 1..Len(ds) |-> ds[i].FullPath]

\* The directories that survive the filtering of the scan of the root.
Survivors == ResultSet(RefScan(<<>>).dir)

\* C16: the flattened view of a scan result has exactly one entry per
\* directory node that survived filtering, so its length is the number of
\* surviving nodes; with the accept-all filter and no failures that is the
\* number of directories of the tree, the root included.
C16_FlattenOnePerSurvivor ==
    reordered.done =>
        /\ Len(reordered.flat) = Cardinality(Survivors)
        /\ {reordered.flat[i].FullPath : i \in 1..Len(reordered.flat)} = Survivors
        /\ (filter = AcceptAll /\ NoReadFailures) =>
              Len(reordered.flat) = Cardinality(Tree)

\* t holds the elements of s, each as many times as s does.
IsPermutation(s, t) ==
    /\ Len(s) = Len(t)
    /\ \A i \in 1..Len(s) :
          Cardinality({k \in 1..Len(s) : s[k] = s[i]})
            = Cardinality({k \in 1..Len(t) : t[k] = s[i]})

\* C17: ReorderDirectory returns the flattened directories ordered by Size,
\* non-increasing: each entry's Size is at least that of the entry after it,
\* and the output is a permutation of the flattened sequence.
C17_SortedBySizeDescending ==
    reordered.done =>
        /\ \A i \in 1..(Len(reordered.result) - 1) :
              reordered.result[i].Size >= reordered.result[i + 1].Size
        /\ IsPermutation(FlattenDirectory(out.dir), reordered.result)

\* C17 witness: a tree whose flattening was not ordered by size has been
\* reordered.
C17_Witness ==
    /\ reordered.done
    /\ \E i \in 1..(Len(reordered.flat) - 1) :
          reordered.flat[i].Size < reordered.flat[i + 1].Size
    /\ \E i \in 1..Len(reordered.flat) : reordered.flat[i].Size > 0

\* The index of the entry with the full path of d in the sequence ds.
IndexIn(ds, d) == CHOOSE i \in 1..Len(ds) : ds[i].FullPath = d.FullPath

\* C18: the sort of ReorderDirectory is stable: two directories of equal
\* Size appear in the output in the relative order they have in the
\* pre-order flattening of the tree.
C18_StableSort ==
    reordered.done =>
        \A i, j \in 1..Len(reordered.flat) :
            (i < j /\ reordered.flat[i].Size = reordered.flat[j].Size) =>
                IndexIn(reordered.result, reordered.flat[i])
                  < IndexIn(reordered.result, reordered.flat[j])

\* The positions below p in pre-order: p, then those of each listed
\* sub-directory, in listing order.
RECURSIVE RefPreOrder(_)
RefPreOrder(p) ==
    LET subs == ListedSubDirs(p)
        RECURSIVE Concat(_)
        Concat(ss) == IF ss = <<>> THEN <<>> ELSE ss[1] \o Concat(Tail(ss))
    IN  <<p>> \o Concat([i \in 1..Len(subs) |-> RefPreOrder(subs[i])])

\* C19: Flatten emits the tree in pre-order: each node comes before all its
\* descendants and the flattened sequences of a node's kept children come in
\* child-list order; the order is a function of the scanned tree alone,
\* whatever order the concurrent tasks completed in.
C19_FlattenPreOrder ==
    (reordered.done /\ out.dir # EmptyDirectory) =>
        /\ PathsOf(reordered.flat) =
              SelectSeq(MapSeq(LAMBDA p : Abs(PathOf(p)), RefPreOrder(<<>>)),
                        LAMBDA path : path \in Survivors)
        /\ \A i, j \in 1..Len(reordered.flat) :
              (i # j /\ IsPrefix(reordered.flat[i].FullPath, reordered.flat[j].FullPath))
                  => i < j

\* C19 witness: the flattening of a tree of two levels one sub-directory of
\* which failed or was rejected while its siblings were kept.
C19_Witness ==
    /\ reordered.done
    /\ \E i, j \in 1..Len(reordered.flat) :
          /\ i < j /\ Len(reordered.flat[i].SubDirs) >= 2
          /\ Len(reordered.flat[j].SubDirs) >= 2
    /\ Cardinality(Survivors) < Cardinality(Tree)

C21_RejectedIsMarker ==
    \A p \in Pos : Rejected(p) =>
        /\ ret[p] = [dir |-> EmptyDirectory, err |-> NilErr]
        /\ (p # <<>> /\ PastJoin(Parent(p))) =>
              /\ \A i \in 1..Len(dir[Parent(p)].SubDirs) :
                    /\ dir[Parent(p)].SubDirs[i] # EmptyDirectory
                    /\ dir[Parent(p)].SubDirs[i].FullPath # Abs(PathOf(p))
              /\ Len(dir[Parent(p)].SubDirs)
                    = Cardinality({q \in Tasks(Parent(p)) : Kept(q)})
        /\ (p = <<>> /\ out.done) =>
              out = [done |-> TRUE, dir |-> EmptyDirectory, err |-> NilErr]

\* C21 witness: the scan is over, the root was rejected, and below it a kept
\* directory had a rejected child.
C21_Witness ==
    /\ out.done /\ Rejected(<<>>)
    /\ \E p \in Pos \ {<<>>} : Kept(p) /\ \E q \in Tasks(p) : Rejected(q)

\* The listing of p has been read and turned into its Directory.
Listed(p) == pc[p] \notin {"idle", "spawned", "call"} /\ fsys[p].status = "ok"
\* The plain files listed in p, in listing order.
ListedFiles(p) == SelectSeq(fsys[p].entries, LAMBDA e : ~e.isDir)

\* C22: a failure to read one file's metadata is tolerated: the file is
\* recorded in its directory's Files with Size 0, the scan of the directory
\* does not fail, and the other files and the sub-directories of the
\* directory are processed as usual.
C22_FileInfoFailureTolerated ==
    \A p \in Pos : Listed(p) =>
        /\ Len(dir[p].Files) = Len(ListedFiles(p))
        /\ \A i \in 1..Len(ListedFiles(p)) :
              LET e == ListedFiles(p)[i]
                  f == dir[p].Files[i]
              IN  /\ f.Name = e.name
                  /\ f.Size = IF e.infoOk THEN e.size ELSE 0
                  /\ e.infoOk => f.FullPath = Abs(Join(PathOf(p), e.name))
        /\ dir[p].Size = SumOf(MapSeq(LAMBDA e : IF e.infoOk THEN e.size ELSE 0,
                                      ListedFiles(p)))
        /\ subDirPaths[p] = MapSeq(LAMBDA q : PathOf(q), ListedSubDirs(p))
        /\ Returned(p) => ret[p].err = NilErr
        /\ PastJoin(p) => \A q \in Tasks(p) : pc[q] = "done"

\* C22 witness: a directory holding a file whose metadata cannot be read, a
\* readable file and a sub-directory has been returned, the sub-directory
\* kept in it.
C22_Witness ==
    \E p \in Pos :
        /\ Returned(p) /\ ret[p].dir # EmptyDirectory
        /\ \E i, j \in 1..Len(ListedFiles(p)) :
              ~ListedFiles(p)[i].infoOk /\ ListedFiles(p)[j].infoOk
        /\ Len(ret[p].dir.SubDirs) > 0

\* The tasks that hold a permit, over all invocations together.
AllHolders == {q \in Pos \ {<<>>} : HoldsPermit(q)}

\* C23: the cap is per invocation of processSubDirectories, not global: each
\* invocation has its own semaphore of maxWorkers permits, which counts its
\* own tasks only, so a task is admitted whenever its own invocation has a
\* permit left, however many permits are held elsewhere; over all levels more
\* than maxWorkers tasks can hold permits at once.
C23_CapPerInvocation ==
    /\ \A p \in Pos : semaphore[p] = Cardinality(Holders(p))
    /\ \A q \in Pos \ {<<>>} :
          (pc[q] = "spawned" /\ Cardinality(Holders(Parent(q))) < maxWorkers)
              => ENABLED Acquire(q)
    /\ Cardinality(AllHolders) <= maxWorkers * Cardinality({p \in Pos : Tasks(p) # {}})

\* C23 witness: in a tree of depth 2 more than maxWorkers tasks hold permits,
\* all permits of the inner invocation being taken.
C23_Witness ==
    /\ Cardinality(AllHolders) > maxWorkers
    /\ \E p \in Pos \ {<<>>} : Cardinality(Holders(p)) = maxWorkers

\* The file system fs with the sub-directory q taken out of the listing of
\* its parent.
Removed(fs, q) ==
    [fs EXCEPT ![Parent(q)].entries =
        SelectSeq(@, LAMBDA e : ~(e.isDir /\ e.name = q[Len(q)]))]

\* The outcome of the scan of p carried out sequentially on the file system
\* fs.
RECURSIVE ScanOf(_, _)
ScanOf(fs, p) ==
    LET m == manageDirEntries(PathOf(p), fs[p].entries)
        subs == MapSeq(LAMBDA path : ScanOf(fs, PosOf(path)).dir, m.subDirPaths)
    IN  IF fs[p].status # "ok"
        THEN [dir |-> EmptyDirectory,
              err |-> Errorf(IF fs[p].status = "perm"
                             THEN "permission denied reading directory"
                             ELSE "failed to read directory",
                             PathError(CASE fs[p].status = "perm" -> "EACCES"
                                         [] fs[p].status = "io" -> "EIO"
                                         [] OTHER -> "ENOENT"))]
        ELSE FilterReturn(filter, [m.dir EXCEPT !.SubDirs = filterResults(subs)])

\* C24: the scan of a tree one non-root sub-directory of which cannot be
\* read returns what the scan of the same tree without that sub-directory
\* returns, a nil error and the same tree: the returned value does not show
\* that a subtree was dropped.
C24_DroppedSubtreeInvisible ==
    out.done =>
        \A q \in Tree \ {<<>>} :
            (fsys[q].status # "ok" /\ fsys[<<>>].status = "ok") =>
                /\ out.err = NilErr
                /\ [dir |-> out.dir, err |-> out.err] = ScanOf(Removed(fsys, q), <<>>)

\* C24 witness: a scan that dropped an unreadable sub-directory has returned
\* a tree with another sub-directory in it.
C24_Witness ==
    /\ out.done /\ out.dir # EmptyDirectory /\ Len(out.dir.SubDirs) > 0
    /\ \E q \in Tree \ {<<>>} : fsys[q].status # "ok" /\ pc[q] = "done"

\* A directory that has been through the size filter is kept exactly if its
\* Size is greater than the limit.
C25_State ==
    filter.kind = "size" =>
        \A p \in Pos : (Returned(p) /\ ret[p].err = NilErr) =>
            (ret[p].dir # EmptyDirectory <=> dir[p].Size > filter.limit)

\* C25: the predicate of GetSizeFilter accepts a directory if and only if its
\* Size is strictly greater than the limit of the service, a Size equal to
\* the limit being rejected; the limit is the one the service was
\* constructed with.
C25_SizeFilterStrict == []C25_State /\ [][filter' = filter]_vars

\* C25 witness: under a positive limit one directory of exactly that Size was
\* rejected and one of a greater Size was kept.
C25_Witness ==
    /\ filter.kind = "size" /\ filter.limit > 0
    /\ \E p, q \in Pos :
          /\ Returned(p) /\ ret[p].err = NilErr
          /\ dir[p].Size = filter.limit /\ ret[p].dir = EmptyDirectory
          /\ Returned(q) /\ dir[q].Size > filter.limit /\ ret[q].dir = dir[q]

IsNotExistCause(err) == err # NilErr /\ err.errno = "ENOENT"
IsPermissionCause(err) == err # NilErr /\ err.errno = "EACCES"

\* The error returned for a path in the given state tells the cause.
Classified(err, status) ==
    /\ err # NilErr
    /\ IsNotExistCause(err) <=> status = "missing"
    /\ IsPermissionCause(err) <=> status = "perm"
    /\ err.msg = IF status = "perm" THEN "permission denied reading directory"
                 ELSE "failed to read directory"

\* C27: when a path cannot be listed the scan fails with an error that tells
\* the cause: not found for a path that does not exist, permission denied for
\* a permission failure, each distinguishable from the other and from any
\* other read error.
C27_ErrorClassified ==
    /\ (out.done /\ fsys[<<>>].status # "ok") => Classified(out.err, fsys[<<>>].status)
    /\ (listed.done /\ fsys[listed.pos].status # "ok") =>
          Classified(listed.err, fsys[listed.pos].status)
    /\ \A p \in Pos : (Returned(p) /\ fsys[p].status # "ok") =>
          Classified(ret[p].err, fsys[p].status)

\* C27 witness: the scan of a root that could not be read for a reason other
\* than permission or absence has failed, and so has the listing of a path
\* that does not exist.
C27_Witness ==
    /\ out.done /\ fsys[<<>>].status = "io"
    /\ listed.done /\ fsys[listed.pos].status = "missing"

\* The call of UpdateRemote has returned.
UpdateRemoteReturned == ur.pc = "done"
\* The error returned reports a failed fetch.
IsFetchError(err) == err \in {ErrFetchRolledBack, ErrFetchRollbackFailed}

\* C28 as stated: after any UpdateRemote call that returns a fetch error the
\* origin URL stored in the config is the URL it had before the call.
C28_AnyFetchErrorRestoresURL ==
    (UpdateRemoteReturned /\ IsFetchError(ur.err)) => repo.urls[1] = ur.before.urls[1]

\* C28: when the fetch fails after the origin URL was rewritten, UpdateRemote
\* writes the first URL origin had before the call back and returns an error;
\* if that write succeeds the config holds that URL alone, and if it fails
\* too the error says so and the rewritten URL stays.
C28_FetchErrorRollback ==
    /\ ur.pc = "set" => repo.urls = <<parseRemoteURL(ur.newRemote, ur.before.urls[1])>>
    /\ (UpdateRemoteReturned /\ ur.err = ErrFetchRolledBack) =>
          repo.urls = <<ur.before.urls[1]>>
    /\ (UpdateRemoteReturned /\ ur.err = ErrFetchRollbackFailed) =>
          repo.urls = <<parseRemoteURL(ur.newRemote, ur.before.urls[1])>>
    /\ (UpdateRemoteReturned /\ ur.err = NoError) =>
          repo.urls[1] \in reachable /\ ur.ctx = "live"

\* C28 witness: the fetch from the rewritten URL failed and the old URL,
\* which differs from it, is back in the config.
C28_Witness ==
    /\ UpdateRemoteReturned /\ ur.err = ErrFetchRolledBack
    /\ ur.newRemoteURL # ur.before.urls[1]
    /\ repo.urls[1] = ur.before.urls[1]

\* The call was made on a path that does not exist or is no git repository,
\* or on a repository without a remote named origin.
NoRepositoryOrOrigin ==
    \/ ur.before.kind \in {"missing", "notgit"}
    \/ ur.before.kind = "repo" /\ ur.before.urls = <<>>

\* C29: UpdateRemote returns an error and writes nothing to the repository
\* config when the path does not exist or is not a git repository, or when
\* the repository has no remote named origin.
C29_NoRepositoryNoWrite ==
    (ur.pc # "idle" /\ NoRepositoryOrOrigin) =>
        /\ repo = ur.before
        /\ ur.pc \in {"call", "done"}
        /\ UpdateRemoteReturned =>
              ur.err = IF ur.before.kind = "repo" THEN ErrNoOrigin ELSE ErrOpen

\* C29 witness: the call on a repository without origin has returned.
C29_Witness ==
    /\ UpdateRemoteReturned /\ ur.err = ErrNoOrigin
    /\ ur.before.kind = "repo" /\ ur.before.urls = <<>>

\* The last path element of str, separators at its end left aside, and str
\* without the separators at its end.
LastNonSeparator(str) ==
    CHOOSE e \in 0..Len(str) :
        /\ e = 0 \/ str[e] # "/"
        /\ \A i \in (e + 1)..Len(str) : str[i] = "/"
FinalElement(str) ==
    LET e == LastNonSeparator(str)
        b == CHOOSE i \in 0..e :
                 /\ i = 0 \/ str[i] = "/"
                 /\ \A j \in (i + 1)..e : str[j] # "/"
    IN  SubSeq(str, b + 1, e)
WithoutTrailingSeparators(str) == SubSeq(str, 1, LastNonSeparator(str))

TopLevelErrors == {l \in logs : l.level = "ERROR"}

\* C38: when the listing of the root fails because of a permission error the
\* top-level handler logs "permission denied reading directory", and when it
\* fails for another reason it logs "failed to read directory": the branch
\* taken matches the cause readDirectory classified.
C38_HandlerMatchesCause ==
    (out.done /\ fsys[<<>>].status # "ok") =>
        /\ TopLevelErrors # {}
        /\ \A l \in TopLevelErrors :
              l.msg = IF fsys[<<>>].status = "perm"
                      THEN "permission denied reading directory"
                      ELSE "failed to read directory"

\* The task of q failed: the scan of q returned an error.
Failed(q) == Returned(q) /\ ret[q].err # NilErr

\* C36: compaction drops a result slot if and only if its task failed or its
\* node was rejected by the filter: a directory that was scanned and passed
\* the filter has a non-empty Name and a non-empty FullPath, so it is never
\* taken for the empty marker and removed.
C36_CompactionDropsOnlyMarkers ==
    /\ \A q \in Pos : (Returned(q) /\ ret[q].err = NilErr /\ ApplyFilter(filter, dir[q])) =>
          /\ ret[q].dir = dir[q]
          /\ ret[q].dir.Name # "" /\ ret[q].dir.FullPath # <<>>
    /\ \A p \in Pos : PastJoin(p) =>
          /\ \A q \in Tasks(p) :
                (\A i \in 1..Len(dir[p].SubDirs) :
                     dir[p].SubDirs[i].FullPath # Abs(PathOf(q)))
                   <=> (Failed(q) \/ Rejected(q))
          /\ \A q \in Tasks(p) : ~(Failed(q) \/ Rejected(q)) =>
                \E i \in 1..Len(dir[p].SubDirs) : dir[p].SubDirs[i] = ret[q].dir

\* C36 witness: past the compaction of a directory one of whose tasks was
\* rejected, a kept sibling is among its SubDirs.
C36_Witness ==
    \E p \in Pos : PastJoin(p) /\
        \E q1, q2 \in Tasks(p) :
            /\ Rejected(q1)
            /\ ~Failed(q2) /\ ~Rejected(q2)
            /\ \E i \in 1..Len(dir[p].SubDirs) : dir[p].SubDirs[i] = ret[q2].dir

\* C35: for every finite directory tree the scan terminates: a task keeps
\* the permit of its level while it waits at the join barrier of its own
\* children, but these draw their permits from a fresh semaphore, so every
\* scan call eventually returns and the top-level call does, also with more
\* than maxWorkers siblings on several nested levels.
C35_ScanTerminates ==
    <>(out.done /\ \A p \in Pos : pc[p] \in {"idle", "done"})

\* C35 witness: the scan of a tree with more sub-directories than permits on
\* two nested levels has returned, every task of both levels finished.
C35_Witness ==
    /\ out.done
    /\ Len(subDirPaths[<<>>]) > maxWorkers
    /\ \E q \in Pos : Len(q) = 1 /\ Len(subDirPaths[q]) > maxWorkers
    /\ \A p \in Pos : pc[p] \in {"idle", "done"}

\* UpdateAllBranchesProject has returned its result and no error.
UabSucceeded == uab.pc = "returned" /\ uab.returned = "result" /\ uab.err = NoError

\* The number of times the name occurs in the list.
Occurrences(list, name) == Cardinality({k \in 1..Len(list) : list[k] = name})
InList(list, name) == Occurrences(list, name) > 0

\* C31: after a successful UpdateAllBranchesProject every local branch is in
\* exactly one of Updated, Skipped and Failed; the branch that was current
\* at the start is in Skipped and is never reset; a branch in Updated has a
\* remote-tracking counterpart and was hard-reset to it; a branch without
\* counterpart is in Skipped.
C31_BranchesPartitioned ==
    /\ uab.head \in BranchNameSet => uab.tip[uab.head] = "local"
    /\ UabSucceeded =>
          LET all == uab.result.Updated \o uab.result.Skipped \o uab.result.Failed
              local == {uab.branches[k] : k \in 1..Len(uab.branches)}
          IN  /\ \A b \in local : Occurrences(all, b) = 1
              /\ \A k \in 1..Len(all) : all[k] \in local
              /\ InList(uab.result.Skipped, uab.head)
              /\ \A b \in local :
                    /\ InList(uab.result.Updated, b) =>
                          b \in uab.tracking /\ uab.tip[b] = "origin"
                    /\ b \notin uab.tracking => InList(uab.result.Skipped, b)

\* C31 witness: a successful call that updated a branch, skipped the current
\* one and failed on a third.
C31_Witness ==
    /\ UabSucceeded
    /\ Len(uab.result.Updated) > 0
    /\ Len(uab.result.Failed) > 0
    /\ InList(uab.result.Skipped, uab.head)

\* C37: when UpdateAllBranchesProject returns successfully the worktree is on
\* the branch that was current when the call started.
C37_BackOnOriginalBranch ==
    UabSucceeded => uab.worktree = uab.head /\ uab.head = uab.currentBranch

\* C37 witness: a successful call that checked out and updated two other
\* branches in between.
C37_Witness ==
    /\ UabSucceeded
    /\ Len(uab.result.Updated) > 1
    /\ ~InList(uab.result.Updated, uab.head)

\* C32: UpdateAllBranchesProject called with a context that is already
\* cancelled resets no branch and returns an error.
C32_CancelledBeforeCall ==
    uab.ctxAtCall = "canceled" =>
        /\ \A b \in BranchNameSet : uab.tip[b] = "local"
        /\ uab.worktree = uab.head
        /\ uab.pc = "returned" => uab.err # NoError /\ uab.returned = "nil"

\* C32 witness: the fetch of a cancelled call went through, and the check at
\* the first branch, one that would have been reset, ended the call.
C32_Witness ==
    /\ uab.pc = "returned" /\ uab.ctxAtCall = "canceled"
    /\ uab.err = ErrProcessingBranches
    /\ uab.i = 1
    /\ LET b == uab.branches[1]
       IN  b # uab.head /\ b \in uab.tracking /\ b \notin uab.blocked \cup uab.resetFails

\* C33: the update-remote command run with the new-remote flag missing or
\* empty returns an error before it reads the entries of the current
\* directory and without modifying any repository.
C33_EmptyFlagRejected ==
    cmd.newRemote = <<>> =>
        /\ ~cmd.read /\ cmd.calls = <<>> /\ cmd.entries = cmd.before
        /\ ur.pc = "idle"
        /\ cmd.pc = "returned" => cmd.err = ErrFlagRequired

\* C33 witness: the command has returned on an empty flag in a directory
\* that holds a repository.
C33_Witness ==
    /\ cmd.pc = "returned" /\ cmd.newRemote = <<>> /\ cmd.err = ErrFlagRequired
    /\ \E k \in 1..Len(cmd.entries) :
          cmd.entries[k].isDir /\ cmd.entries[k].repo.kind = "repo"

\* C34: the update-remote command run with a non-empty new-remote value over
\* a directory of repositories whose every UpdateRemote fetch fails returns an
\* error.
C34_AllFetchesFailIsError ==
    (/\ cmd.pc = "returned" /\ cmd.newRemote # <<>>
     /\ Len(cmd.calls) > 0
     /\ \A k \in 1..Len(cmd.calls) :
           cmd.calls[k].err \in {ErrFetchRolledBack, ErrFetchRollbackFailed})
        => cmd.err # NoError

====
